---------------------------- MODULE Spec2Model ----------------------------
(***************************************************************************)
(* A model of paperlog's logger thread (src/src/logger/mod.rs): the        *)
(* submission queue and its wake semaphore, the flush semaphore, the       *)
(* one-shot init, the worker loop log_thread, the chunker                  *)
(* split_str_into_chunks and the sink fan-out do_log.                      *)
(*                                                                         *)
(* A message is a sequence of characters; the line break is the one        *)
(* character LineBreak.  A LogData value is a record with the fields that  *)
(* queue_log fills in.                                                     *)
(***************************************************************************)
EXTENDS Integers, Sequences, FiniteSets, TLC

\* ------------------------------------------------------------------ bounds

\* Total number of queue_log calls made by all producers together.
MaxEntries == 3
\* Largest max_string_len the chunker is run with in ChunkSpec (0 is tried as well).
MaxStrLen == 2
\* Longest message of the chunker's input set ChunkMessages.
MaxMsgLen == 4
\* A burst drained as one batch holds FlushWatermark .. FlushWatermark + BurstOver entries.
BurstOver == 2
\* Number of add_context calls per tag whose File::create succeeds.
MaxCreates == 2

\* The watermark of line 246: logs_since_last_flush > 50.
FlushWatermark == 50

Producers == {"p1", "p2"}
Waiters == {"w1"}

\* The build that is modelled: every cfg feature of do_log enabled.
Features == {"file", "stdout", "logcat", "sinks"}

LineBreak == "\n"
Chars == {"a", "b", LineBreak}

None == "None"
\* The tags that add_context is called with.
Tags == {"t1", "t2"}
\* The threads that hold the logger handle and call add_context on it.
Callers == {"main"}
DEFAULT_LEVEL == "INFO"
\* The level and tag arguments queue_log is called with in ChunkSpec.
ChunkLevels == {DEFAULT_LEVEL, "ERROR"}
ChunkTags == {None, "t1"}

\* ---------------------------------------------------------------- helpers

RECURSIVE SeqsUpTo(_, _)
\* All sequences over S of length at most n.
SeqsUpTo(S, n) ==
    IF n = 0 THEN {<<>>}
    ELSE LET shorter == SeqsUpTo(S, n - 1)
         IN  shorter \cup {Append(s, c) : s \in {t \in shorter : Len(t) = n - 1}, c \in S}

RECURSIVE Flatten(_)
\* The concatenation of a sequence of sequences (Iterator::flat_map's joining).
Flatten(ss) == IF ss = <<>> THEN <<>> ELSE Head(ss) \o Flatten(Tail(ss))

\* Messages the producers of Spec submit: an empty one, and one that is cut
\* into two chunks when max_string_len is 1.
SpecMessages == {<<>>, <<"a", "b">>}

\* Messages the producers of FlushSpec submit.
FlushMessages == {<<"a", "b">>}

\* The values of config.max_string_len that Spec constructs the logger with.
SpecStrLens == {0, 1, 2}

\* Messages the chunker is applied to in ChunkSpec.
ChunkMessages == SeqsUpTo(Chars, MaxMsgLen)

\* ------------------------------------------------------------------ state

VARIABLES
    logger,                 \* "absent" | "constructed" | "failed": LoggerThread::new's outcome
    config_max_string_len,  \* config.max_string_len
    log_queue,              \* log_queue.1: Mutex<Vec<LogData>>
    log_sem,                \* log_queue.0: SemaphoreLite, its count
    flush_sem,              \* flush_semaphore: SemaphoreLite, its count
    inited,                 \* inited: AtomicBool
    spawned,                \* number of consumer threads thread::spawn started
    init_result,            \* what the last init call returned
    ppc,                    \* each producer's position in queue_log
    pcalls,                 \* each producer's number of queue_log calls begun
    pushed,                 \* history: every LogData pushed, in push order
    wpc,                    \* the worker's position in log_thread
    max_str_len,            \* log_thread's local max_str_len
    queue,                  \* log_thread's local queue (the drained batch)
    split_logs,             \* log_thread's local split_logs, as the whole sequence
    cursor,                 \* how many items of split_logs the for loop has taken
    logs_since_last_flush,  \* log_thread's local counter
    dispatched,             \* history: every do_log call, in call order
    fpc,                    \* each flush waiter's position
    fsnap,                  \* history: the submissions completed before the wait began
    context_map,            \* context_map: per tag the handle it holds (0: none)
    file_creates,           \* history: per tag the File::create calls that succeeded
    ctx_writers,            \* history: the threads that changed context_map after init
    log_mutex               \* log_queue.1's mutex: "free" or the thread that holds it

vars == <<logger, config_max_string_len, log_queue, log_sem, flush_sem, inited,
          spawned, init_result, ppc, pcalls, pushed, wpc, max_str_len, queue,
          split_logs, cursor, logs_since_last_flush, dispatched, fpc, fsnap,
          context_map, file_creates, ctx_writers, log_mutex>>

producerVars == <<ppc, pcalls, pushed>>
workerVars == <<wpc, max_str_len, queue, split_logs, cursor, logs_since_last_flush, dispatched>>
lifeVars == <<logger, config_max_string_len, inited, spawned, init_result>>
waiterVars == <<fpc, fsnap>>
registryVars == <<context_map, file_creates, ctx_writers>>

\* The submission a LogData value (or a chunk cut from it) comes from: every
\* queue_log call site (file, line) is used once.
IdOf(log) == <<log.file, log.line>>

\* ---------------------------------------------------------------- chunker

RECURSIVE Split(_)
\* str::split("\n"): the lines of s, at least one (the empty string has one
\* empty line).
Split(s) ==
    IF \A i \in 1..Len(s) : s[i] # LineBreak THEN <<s>>
    ELSE LET i == CHOOSE k \in 1..Len(s) :
                      s[k] = LineBreak /\ \A j \in 1..(k - 1) : s[j] # LineBreak
         IN  <<SubSeq(s, 1, i - 1)>> \o Split(SubSeq(s, i + 1, Len(s)))

RECURSIVE ChunksOneTooMany(_, _)
\* Chunks with the group size off by one: groups of n + 1 characters.
ChunksOneTooMany(s, n) ==
    IF s = <<>> THEN <<>>
    ELSE IF Len(s) <= n + 1 THEN <<s>>
    ELSE <<SubSeq(s, 1, n + 1)>> \o ChunksOneTooMany(SubSeq(s, n + 2, Len(s)), n)

RECURSIVE Chunks(_, _)
\* Itertools::chunks(n) over s.chars(), n >= 1: successive groups of n
\* characters, the last one possibly shorter; no group for an empty s.
Chunks(s, n) ==
    IF s = <<>> THEN <<>>
    ELSE IF Len(s) <= n THEN <<s>>
    ELSE <<SubSeq(s, 1, n)>> \o Chunks(SubSeq(s, n + 1, Len(s)), n)

\* A chunker that builds its chunks from a default LogData instead of the
\* source entry: level and tag are not copied.
SplitLogFromDefault(log, n) ==
    LET lines == Split(log.message)
        chunks == Flatten([i \in 1..Len(lines) |-> Chunks(lines[i], n)])
    IN  [k \in 1..Len(chunks) |->
            [log EXCEPT !.message = chunks[k], !.level = DEFAULT_LEVEL, !.tag = None]]

\* The closure of lines 274-293 for one log.
SplitLog(log, n) ==
    LET lines == Split(log.message)
        chunks == Flatten([i \in 1..Len(lines) |-> Chunks(lines[i], n)])
    IN  [k \in 1..Len(chunks) |-> [log EXCEPT !.message = chunks[k]]]

\* split_str_into_chunks(queue, max_str_len), max_str_len >= 1.
split_str_into_chunks(q, n) == Flatten([i \in 1..Len(q) |-> SplitLog(q[i], n)])


\* ------------------------------------------------------------ primitives

\* SemaphoreLite::signal: one more wake-up is available.
SemSignal(count) == count + 1

\* SemaphoreLite::wait can return: a wake-up is available.
SemAvailable(count) == count > 0

\* SemaphoreLite::wait returning: it takes one wake-up.
SemTake(count) == count - 1

\* Push putting the entry at the front of the Vec instead of the back.
PushFront(q, log) == <<log>> \o q

\* Vec::push of line 170.
Push(q, log) == Append(q, log)

\* The submissions whose queue_log call has returned (pushed and signalled).
Completed ==
    {IdOf(pushed[i]) : i \in 1..Len(pushed)}
        \ {<<p, pcalls[p]>> : p \in {r \in Producers : ppc[r] = "signal"}}

\* ------------------------------------------------------------------- init

Init ==
    /\ logger = "absent"
    /\ config_max_string_len = 0
    /\ log_queue = <<>>
    /\ log_sem = 0
    /\ flush_sem = 0
    /\ inited = FALSE
    /\ spawned = 0
    /\ init_result = "none"
    /\ ppc = [p \in Producers |-> "idle"]
    /\ pcalls = [p \in Producers |-> 0]
    /\ pushed = <<>>
    /\ wpc = "none"
    /\ max_str_len = 0
    /\ queue = <<>>
    /\ split_logs = <<>>
    /\ cursor = 0
    /\ logs_since_last_flush = 0
    /\ dispatched = <<>>
    /\ fpc = [w \in Waiters |-> "idle"]
    /\ fsnap = [w \in Waiters |-> {}]
    /\ context_map = [t \in Tags |-> 0]
    /\ file_creates = [t \in Tags |-> 0]
    /\ ctx_writers = {}
    /\ log_mutex = "free"

\* -------------------------------------------------------------- lifecycle

\* LoggerThread::new(config, log_path): with the file feature the directory
\* and file creation may fail (fs_ok = FALSE); config.max_string_len is stored
\* as given.
new(max_string_len, fs_ok) ==
    /\ logger = "absent"
    /\ IF "file" \in Features /\ ~fs_ok
       THEN /\ logger' = "failed"
            /\ UNCHANGED config_max_string_len
       ELSE /\ logger' = "constructed"
            /\ config_max_string_len' = max_string_len
    /\ UNCHANGED <<log_queue, log_sem, flush_sem, inited, spawned, init_result>>
    /\ UNCHANGED <<producerVars, workerVars, waiterVars, registryVars, log_mutex>>

\* init without its guard: the flag is never found set.
AlreadyInitedUnchecked == FALSE

\* The test of line 117: inited.load(SeqCst).
AlreadyInited == inited

\* LoggerThread::init: bail when already initialized, else set the flag and
\* spawn the consumer thread.
init ==
    /\ logger = "constructed"
    /\ IF AlreadyInited
       THEN /\ init_result' = "AlreadyInitialized"
            /\ UNCHANGED <<inited, spawned, wpc>>
       ELSE /\ inited' = TRUE
            /\ spawned' = spawned + 1
            /\ wpc' = "top"
            /\ init_result' = "Ok"
    /\ UNCHANGED <<logger, config_max_string_len, log_queue, log_sem, flush_sem>>
    /\ UNCHANGED <<producerVars, waiterVars, registryVars, log_mutex>>
    /\ UNCHANGED <<max_str_len, queue, split_logs, cursor, logs_since_last_flush, dispatched>>

\* -------------------------------------------------------------- producers

\* queue_log, lines 159-170: build the LogData and push it under the mutex.
queue_log_push(p, message) ==
    /\ logger = "constructed"
    /\ ppc[p] = "idle"
    /\ Len(pushed) < MaxEntries
    /\ LET log_data == [level |-> DEFAULT_LEVEL, tag |-> None, message |-> message,
                        timestamp |-> Len(pushed) + 1, file |-> p,
                        line |-> pcalls[p] + 1]
       IN  /\ log_queue' = Push(log_queue, log_data)
           /\ pushed' = Append(pushed, log_data)
    /\ pcalls' = [pcalls EXCEPT ![p] = @ + 1]
    /\ ppc' = [ppc EXCEPT ![p] = "signal"]
    /\ UNCHANGED <<log_sem, flush_sem, lifeVars, registryVars, log_mutex, workerVars, waiterVars>>

\* A queue_log that returns after the push without signalling.
queue_log_no_signal(p) ==
    /\ ppc[p] = "signal"
    /\ ppc' = [ppc EXCEPT ![p] = "idle"]
    /\ UNCHANGED <<log_queue, log_sem, flush_sem, pcalls, pushed>>
    /\ UNCHANGED <<lifeVars, registryVars, log_mutex, workerVars, waiterVars>>

\* queue_log, line 171: sempahore.signal().
queue_log_signal(p) ==
    /\ ppc[p] = "signal"
    /\ log_sem' = SemSignal(log_sem)
    /\ ppc' = [ppc EXCEPT ![p] = "idle"]
    /\ UNCHANGED <<log_queue, flush_sem, pcalls, pushed, lifeVars, registryVars, log_mutex, workerVars, waiterVars>>

\* ----------------------------------------------------------------- worker

\* do_log (lines 296-310) for one entry: the sinks that were handed the entry
\* and the result.  file_logger::do_log and sink_logger::do_log may fail
\* (file_ok, sinks_ok); a failed file_logger returns through `?` before the
\* other sinks are called.
do_log(log, file_ok, sinks_ok) ==
    IF "file" \in Features /\ ~file_ok
    THEN [log |-> log, recv |-> {"file"}, ok |-> FALSE]
    ELSE [log |-> log, recv |-> Features,
          ok |-> ("sinks" \in Features => sinks_ok)]

\* What the `?` of line 240 does with do_log's result: Ok goes on with the
\* for loop, Err returns from log_thread.
AfterDoLog(ok) == IF ok THEN "dispatch" ELSE "exited"

\* Line 227: read config.max_string_len.
WorkerReadConfig ==
    /\ wpc = "top"
    /\ max_str_len' = config_max_string_len
    /\ wpc' = "drain"
    /\ UNCHANGED <<log_queue, log_sem, flush_sem, lifeVars, registryVars, log_mutex, producerVars, waiterVars>>
    /\ UNCHANGED <<queue, split_logs, cursor, logs_since_last_flush, dispatched>>

\* A drain that loses the newest entry.
DrainedButLast(q) == SubSeq(q, 1, Len(q) - 1)

\* The Vec the worker takes out of the mutex at line 232: drain(..).
Drained(q) == q

\* Lines 229-237: drain the queue under the mutex; a non-empty batch is handed
\* to split_str_into_chunks, whose chunks(0) panics at the first entry.
WorkerDrain ==
    /\ wpc = "drain"
    /\ queue' = Drained(log_queue)
    /\ log_queue' = <<>>
    /\ cursor' = 0
    /\ IF log_queue # <<>> /\ max_str_len = 0
       THEN /\ wpc' = "panicked"
            /\ split_logs' = <<>>
       ELSE /\ wpc' = "dispatch"
            /\ split_logs' = IF log_queue = <<>> THEN <<>>
                             ELSE split_str_into_chunks(Drained(log_queue), max_str_len)
    /\ UNCHANGED <<log_sem, flush_sem, lifeVars, registryVars, log_mutex, producerVars, waiterVars>>
    /\ UNCHANGED <<max_str_len, logs_since_last_flush, dispatched>>

\* Lines 239-241: one turn of the for loop.
WorkerDoLog(file_ok, sinks_ok) ==
    /\ wpc = "dispatch"
    /\ cursor < Len(split_logs)
    /\ LET r == do_log(split_logs[cursor + 1], file_ok, sinks_ok)
       IN  /\ dispatched' = Append(dispatched, r)
           /\ wpc' = AfterDoLog(r.ok)
    /\ cursor' = cursor + 1
    /\ UNCHANGED <<log_queue, log_sem, flush_sem, lifeVars, registryVars, log_mutex, producerVars, waiterVars>>
    /\ UNCHANGED <<max_str_len, queue, split_logs, logs_since_last_flush>>

\* A count trigger that trips one entry late.
ExceededOffByOne(counted) == counted > FlushWatermark + 1

\* Line 246: exceeded_log_buffer = logs_since_last_flush > 50.
ExceededLogBuffer(counted) == counted > FlushWatermark

\* Lines 242-251, after the for loop (or after an empty drain): count the
\* batch, then reset the counter when a flush trigger trips.
WorkerThreshold(elapsed_time) ==
    /\ wpc = "dispatch"
    /\ cursor = Len(split_logs)
    /\ LET counted == logs_since_last_flush + Len(queue)
           exceeded_log_buffer == ExceededLogBuffer(counted)
       IN  logs_since_last_flush' =
               IF exceeded_log_buffer \/ elapsed_time THEN 0 ELSE counted
    /\ queue' = <<>>
    /\ split_logs' = <<>>
    /\ cursor' = 0
    /\ wpc' = "check"
    /\ UNCHANGED <<log_queue, log_sem, flush_sem, lifeVars, registryVars, log_mutex, producerVars, waiterVars>>
    /\ UNCHANGED <<max_str_len, dispatched>>

\* A re-check that goes on to the signal whatever it saw.
AfterCheckAlways(is_empty) == "signal"

\* The `if` of line 254: the block of lines 255-256 runs when is_empty() is
\* true, otherwise the loop starts over.
AfterCheck(is_empty) == IF is_empty THEN "signal" ELSE "top"

\* Line 254: log_mutex.lock().unwrap().is_empty().
WorkerCheckEmpty ==
    /\ wpc = "check"
    /\ wpc' = AfterCheck(log_queue = <<>>)
    /\ UNCHANGED <<log_queue, log_sem, flush_sem, lifeVars, registryVars, log_mutex, producerVars, waiterVars>>
    /\ UNCHANGED <<max_str_len, queue, split_logs, cursor, logs_since_last_flush, dispatched>>

\* Line 255: flush_semaphore.signal().
WorkerFlushSignal ==
    /\ wpc = "signal"
    /\ flush_sem' = SemSignal(flush_sem)
    /\ wpc' = "wait"
    /\ UNCHANGED <<log_queue, log_sem, lifeVars, registryVars, log_mutex, producerVars, waiterVars>>
    /\ UNCHANGED <<max_str_len, queue, split_logs, cursor, logs_since_last_flush, dispatched>>

\* Line 256: log_semaphore_lite.wait() returning.
WorkerWait ==
    /\ wpc = "wait"
    /\ SemAvailable(log_sem)
    /\ log_sem' = SemTake(log_sem)
    /\ wpc' = "top"
    /\ UNCHANGED <<log_queue, flush_sem, lifeVars, registryVars, log_mutex, producerVars, waiterVars>>
    /\ UNCHANGED <<max_str_len, queue, split_logs, cursor, logs_since_last_flush, dispatched>>

\* ---------------------------------------------------------- flush waiters

\* The semaphore wait_for_flush waits on: line 265, self.log_queue.0.
FlushWaitCount == log_sem

\* A thread calls wait_for_flush (timed = FALSE) or wait_for_flush_timeout.
wait_for_flush_begin(w, timed) ==
    /\ logger = "constructed"
    /\ fpc[w] = "idle"
    /\ fpc' = [fpc EXCEPT ![w] = IF timed THEN "waiting_timeout" ELSE "waiting"]
    /\ fsnap' = [fsnap EXCEPT ![w] = Completed]
    /\ UNCHANGED <<log_queue, log_sem, flush_sem, lifeVars, registryVars, log_mutex, producerVars, workerVars>>

\* Lines 265 and 268: the wait returns with a wake-up of self.log_queue.0.
wait_for_flush_return(w) ==
    /\ fpc[w] \in {"waiting", "waiting_timeout"}
    /\ SemAvailable(FlushWaitCount)
    /\ log_sem' = SemTake(FlushWaitCount)
    /\ fpc' = [fpc EXCEPT ![w] = IF fpc[w] = "waiting" THEN "returned" ELSE "returned_timeout"]
    /\ UNCHANGED <<log_queue, flush_sem, fsnap, lifeVars, registryVars, log_mutex, producerVars, workerVars>>

\* Line 268: wait_timeout(duration) returns because the duration has passed.
wait_for_flush_timeout_expire(w) ==
    /\ fpc[w] = "waiting_timeout"
    /\ fpc' = [fpc EXCEPT ![w] = "returned_timeout"]
    /\ UNCHANGED <<log_queue, log_sem, flush_sem, fsnap, lifeVars, registryVars, log_mutex, producerVars, workerVars>>

\* ---------------------------------------------------------- specification

WorkerNext ==
    \/ WorkerReadConfig
    \/ WorkerDrain
    \/ \E file_ok \in BOOLEAN, sinks_ok \in BOOLEAN : WorkerDoLog(file_ok, sinks_ok)
    \/ \E elapsed_time \in BOOLEAN : WorkerThreshold(elapsed_time)
    \/ WorkerCheckEmpty
    \/ WorkerFlushSignal
    \/ WorkerWait

LifeNext ==
    \/ \E m \in SpecStrLens, fs_ok \in BOOLEAN : new(m, fs_ok)
    \/ init

ProducerNext(messages) ==
    \/ \E p \in Producers, message \in messages : queue_log_push(p, message)
    \/ \E p \in Producers : queue_log_signal(p)

Next ==
    \/ LifeNext
    \/ ProducerNext(SpecMessages)
    \/ WorkerNext

\* Producers and the worker alone.
Spec == Init /\ [][Next]_vars

\* Spec under the scheduler's fairness: a thread that can take its next step
\* eventually takes it (the worker's loop, a producer's pending signal).
FairSpec ==
    /\ Spec
    /\ WF_vars(WorkerNext)
    /\ \A p \in Producers : WF_vars(queue_log_signal(p))

FlushNext ==
    \/ LifeNext
    \/ ProducerNext(FlushMessages)
    \/ WorkerNext
    \/ \E w \in Waiters, timed \in BOOLEAN : wait_for_flush_begin(w, timed)
    \/ \E w \in Waiters : wait_for_flush_return(w)
    \/ \E w \in Waiters : wait_for_flush_timeout_expire(w)

\* Producers, the worker and threads that wait for a flush.
FlushSpec == Init /\ [][FlushNext]_vars

\* The chunker on its own: the logger is constructed and initialized, one
\* producer has submitted one message of ChunkMessages, and the worker runs.
ChunkInit ==
    /\ logger = "constructed"
    /\ config_max_string_len \in 0..MaxStrLen
    /\ \E message \in ChunkMessages, level \in ChunkLevels, tag \in ChunkTags :
          LET log_data == [level |-> level, tag |-> tag, message |-> message,
                           timestamp |-> 1, file |-> "p1", line |-> 1]
          IN  /\ log_queue = Push(<<>>, log_data)
              /\ pushed = <<log_data>>
    /\ log_sem = SemSignal(0)
    /\ flush_sem = 0
    /\ inited = TRUE
    /\ spawned = 1
    /\ init_result = "Ok"
    /\ ppc = [p \in Producers |-> "idle"]
    /\ pcalls = [p \in Producers |-> IF p = "p1" THEN 1 ELSE 0]
    /\ wpc = "top"
    /\ max_str_len = 0
    /\ queue = <<>>
    /\ split_logs = <<>>
    /\ cursor = 0
    /\ logs_since_last_flush = 0
    /\ dispatched = <<>>
    /\ fpc = [w \in Waiters |-> "idle"]
    /\ fsnap = [w \in Waiters |-> {}]
    /\ context_map = [t \in Tags |-> 0]
    /\ file_creates = [t \in Tags |-> 0]
    /\ ctx_writers = {}
    /\ log_mutex = "free"

ChunkSpec == ChunkInit /\ [][WorkerNext]_vars

\* ----------------------------------------------------------------- claims

\* The do_log calls made for the chunks of one submission, in call order.
DispatchedOf(id) == SelectSeq(dispatched, LAMBDA d : IdOf(d.log) = id)

\* The LogData values of a sequence of do_log calls.
LogsOf(calls) == [i \in 1..Len(calls) |-> calls[i].log]

\* Every chunk of every pushed entry has been passed to do_log, once.
AllDispatchedOnce ==
    \A i \in 1..Len(pushed) :
        LogsOf(DispatchedOf(IdOf(pushed[i]))) = SplitLog(pushed[i], config_max_string_len)

\* C1: with the worker started and a valid max_string_len, every submitted
\* entry is eventually passed to do_log exactly once per chunk, and stays so:
\* nothing is left in the queue forever, dropped or dispatched twice.
C1_EveryEntryDispatchedOnce ==
    <>[]((inited /\ config_max_string_len >= 1) => AllDispatchedOnce)

\* C2: when wait_for_flush has returned, every entry whose queue_log call
\* completed before the wait began is out of the queue and all its chunks have
\* been dispatched.
C2_FlushedWhenWaitReturns ==
    \A w \in Waiters :
        (inited /\ config_max_string_len >= 1 /\ fpc[w] = "returned") =>
            \A i \in 1..Len(pushed) :
                IdOf(pushed[i]) \in fsnap[w] =>
                    /\ \A k \in 1..Len(log_queue) : IdOf(log_queue[k]) # IdOf(pushed[i])
                    /\ LogsOf(DispatchedOf(IdOf(pushed[i])))
                           = SplitLog(pushed[i], config_max_string_len)

\* C3: in the sequence of do_log calls, the chunks of one producer's earlier
\* submission all come before the chunks of its later submission.
C3_PerProducerOrder ==
    \A i \in 1..Len(dispatched), j \in 1..Len(dispatched) :
        (i < j /\ dispatched[i].log.file = dispatched[j].log.file) =>
            dispatched[i].log.line <= dispatched[j].log.line

\* C3's case: two submissions of one producer dispatched, with a chunk of
\* another producer's entry dispatched between them.
C3_Witness ==
    \E i \in 1..Len(dispatched), j \in 1..Len(dispatched), k \in 1..Len(dispatched) :
        /\ i < j /\ j < k
        /\ dispatched[i].log.file = dispatched[k].log.file
        /\ dispatched[i].log.line < dispatched[k].log.line
        /\ dispatched[j].log.file # dispatched[i].log.file

\* C4: every entry passed to do_log is handed to every enabled sink, whatever
\* the other sinks return.
C4_EverySinkReceives ==
    \A i \in 1..Len(dispatched) : dispatched[i].recv = Features

\* C5: the worker is still running after do_log has returned an error.
C5_WorkerSurvivesSinkFailure ==
    (\E i \in 1..Len(dispatched) : ~dispatched[i].ok) => wpc # "exited"

\* C6: at most one consumer thread is ever spawned; it exists exactly when the
\* worker is initialized, and an init call that reports "already initialized"
\* spawned nothing.
C6_InitOnce ==
    /\ spawned <= 1
    /\ inited <=> spawned = 1
    /\ init_result = "AlreadyInitialized" => (inited /\ spawned = 1)
    /\ init_result = "Ok" => spawned = 1

\* C6's case: init was called on an initialized worker and failed.
C6_Witness == init_result = "AlreadyInitialized" /\ spawned = 1

\* The messages of the chunks that split_logs holds for the i-th entry of the
\* drained batch, in emission order.
ChunkMessagesOf(i) ==
    LET mine == SelectSeq(split_logs, LAMBDA c : IdOf(c) = IdOf(queue[i]))
    IN  [k \in 1..Len(mine) |-> mine[k].message]

\* The worker has cut a drained batch with a valid max_str_len.
Chunked == wpc = "dispatch" /\ queue # <<>> /\ max_str_len >= 1

\* C7: an entry whose message is empty yields exactly one chunk, with an empty
\* message.
C7_EmptyMessageOneEntry ==
    Chunked =>
        \A i \in 1..Len(queue) :
            queue[i].message = <<>> => ChunkMessagesOf(i) = << <<>> >>

RECURSIVE Rejoin(_, _)
\* The chunks joined in order, with a line break put after the k-th chunk
\* where breaks[k] says so.
Rejoin(chunks, breaks) ==
    IF chunks = <<>> THEN <<>>
    ELSE IF Len(chunks) = 1 THEN chunks[1]
    ELSE chunks[1] \o (IF breaks[1] THEN <<LineBreak>> ELSE <<>>)
             \o Rejoin(Tail(chunks), [k \in 1..(Len(breaks) - 1) |-> breaks[k + 1]])

\* C8: the chunks of an entry, in emission order, give back the message once
\* the line breaks are put back between them: no character and no line, empty
\* ones included, is lost.
C8_ChunksReconstructMessage ==
    Chunked =>
        \A i \in 1..Len(queue) :
            LET chunks == ChunkMessagesOf(i)
            IN  \E breaks \in [1..(Len(chunks) - 1) -> BOOLEAN] :
                    Rejoin(chunks, breaks) = queue[i].message

\* ceil(a / b) for b >= 1.
CeilDiv(a, b) == (a + b - 1) \div b

\* The k-th of the ceil(N / n) pieces of a line of N characters.
Piece(line, n, k) ==
    SubSeq(line, (k - 1) * n + 1, IF k * n < Len(line) THEN k * n ELSE Len(line))

\* C9: every chunk has at most max_str_len characters and no line break, and
\* the chunks of an entry are, line after line, the ceil(N / max_str_len)
\* successive pieces of each line of N characters.
C9_ChunksBoundedAndCounted ==
    Chunked =>
        /\ \A k \in 1..Len(split_logs) :
               /\ Len(split_logs[k].message) <= max_str_len
               /\ \A c \in 1..Len(split_logs[k].message) :
                      split_logs[k].message[c] # LineBreak
        /\ \A i \in 1..Len(queue) :
               LET lines == Split(queue[i].message)
               IN  ChunkMessagesOf(i)
                       = Flatten([l \in 1..Len(lines) |->
                             [k \in 1..CeilDiv(Len(lines[l]), max_str_len) |->
                                 Piece(lines[l], max_str_len, k)]])

\* C9's case: with max_str_len = 1 a line of three characters or more has
\* been cut into single characters and all of them dispatched.
C9_Witness ==
    /\ Chunked
    /\ max_str_len = 1
    /\ Len(Split(queue[1].message)) = 1
    /\ Len(queue[1].message) >= 3
    /\ Len(split_logs) = Len(queue[1].message)
    /\ cursor = Len(split_logs)

\* C10: a logger is never constructed with max_string_len = 0, and the worker
\* never reaches its chunking step with max_str_len = 0 nor panics there.
C10_ZeroMaxLenRejected ==
    /\ logger = "constructed" => config_max_string_len # 0
    /\ wpc # "panicked"

\* ------------------------------------------------------------------ C11

\* The n-th entry of a burst of queue_log calls made by one producer, each
\* with a message short enough to stay unsplit (lines 159-166).
BurstEntry(n) ==
    [level |-> DEFAULT_LEVEL, tag |-> None, message |-> <<"a">>,
     timestamp |-> n, file |-> "p1", line |-> n]

\* A started logger whose producer has completed a burst of queue_log calls
\* (each one pushed and signalled, lines 170-171) before the worker's first
\* drain: the whole burst is one batch.
ThresholdInit ==
    /\ logger = "constructed"
    /\ config_max_string_len = MaxStrLen
    /\ \E n \in FlushWatermark..(FlushWatermark + BurstOver) :
          /\ log_queue = [i \in 1..n |-> BurstEntry(i)]
          /\ pushed = [i \in 1..n |-> BurstEntry(i)]
          /\ log_sem = n
          /\ pcalls = [p \in Producers |-> IF p = "p1" THEN n ELSE 0]
    /\ flush_sem = 0
    /\ inited = TRUE
    /\ spawned = 1
    /\ init_result = "Ok"
    /\ ppc = [p \in Producers |-> "idle"]
    /\ wpc = "top"
    /\ max_str_len = 0
    /\ queue = <<>>
    /\ split_logs = <<>>
    /\ cursor = 0
    /\ logs_since_last_flush = 0
    /\ dispatched = <<>>
    /\ fpc = [w \in Waiters |-> "idle"]
    /\ fsnap = [w \in Waiters |-> {}]
    /\ context_map = [t \in Tags |-> 0]
    /\ file_creates = [t \in Tags |-> 0]
    /\ ctx_writers = {}
    /\ log_mutex = "free"

ThresholdSpec == ThresholdInit /\ [][WorkerNext]_vars

\* C11 as stated: the count trigger is evaluated per dispatched entry, so
\* once 51 entries have been dispatched since the last reset the counters
\* are reset before the next entry of the batch is dispatched: no step
\* dispatches a further entry from that state.
C11_ResetAfter51st ==
    [][~(/\ wpc = "dispatch"
         /\ logs_since_last_flush + cursor = FlushWatermark + 1
         /\ cursor' = cursor + 1)]_vars

\* C11 amended: the count trigger is evaluated once per loop pass.  While the
\* batch is dispatched the counter does not move; it changes only in the step
\* that follows the last dispatch of the batch, which adds the whole batch
\* and resets the counter to 0 when the sum exceeds 50 (without the time
\* trigger the sum is kept otherwise).
C11_ResetOncePerBatch ==
    [][/\ (wpc = "dispatch" /\ cursor < Len(split_logs))
            => logs_since_last_flush' = logs_since_last_flush
       /\ (logs_since_last_flush' # logs_since_last_flush)
            => /\ wpc = "dispatch" /\ wpc' = "check" /\ cursor = Len(split_logs)
       /\ (wpc = "dispatch" /\ wpc' = "check")
            => LET counted == logs_since_last_flush + Len(queue)
               IN  /\ counted > FlushWatermark => logs_since_last_flush' = 0
                   /\ logs_since_last_flush' \in {0, counted}]_vars

\* A batch of 52 entries has been dispatched whole and only then was the
\* counter reset.
C11_Witness ==
    /\ wpc = "check"
    /\ Len(dispatched) = FlushWatermark + 2
    /\ cursor = 0
    /\ logs_since_last_flush = 0

\* ------------------------------------------------------------------ C12, C13

\* Lines 193-206, with feature "file": File::create on the tag's path
\* (create_ok: whether it succeeds; on Err the `?` returns before the insert),
\* then context_map.insert(tag, file), which replaces any handle the map
\* holds for tag.  The handle is named by the ordinal of the File::create
\* that made it.  The function runs on the calling thread c, on the
\* LoggerThread itself before init and through the RwLock write guard after.
add_context(c, tag, create_ok) ==
    /\ logger = "constructed"
    /\ file_creates[tag] < MaxCreates
    /\ IF "file" \in Features /\ create_ok
       THEN /\ file_creates' = [file_creates EXCEPT ![tag] = @ + 1]
            /\ context_map' = [context_map EXCEPT ![tag] = file_creates[tag] + 1]
            /\ ctx_writers' = IF inited THEN ctx_writers \cup {c} ELSE ctx_writers
       ELSE UNCHANGED registryVars
    /\ UNCHANGED <<log_queue, log_sem, flush_sem, lifeVars, log_mutex>>
    /\ UNCHANGED <<producerVars, workerVars, waiterVars>>

ContextNext ==
    \/ LifeNext
    \/ \E c \in Callers, tag \in Tags, create_ok \in BOOLEAN : add_context(c, tag, create_ok)
    \/ \E message \in FlushMessages : queue_log_push("p1", message)
    \/ queue_log_signal("p1")
    \/ WorkerNext

ContextSpec == Init /\ [][ContextNext]_vars

\* C12: add_context is idempotent per tag: a tag's destination is created at
\* most once and the handle the registry holds for it is the one made by the
\* first successful call.
C12_AddContextIdempotent ==
    \A t \in Tags : file_creates[t] <= 1 /\ context_map[t] \in {0, 1}

\* C13: once the worker has started, only the worker thread changes the
\* context registry.
C13_RegistryWorkerOnly ==
    inited => ctx_writers \subseteq {"worker"}

\* ------------------------------------------------------------------ C14

\* C14: a flush waiter never consumes a wake-up produced by queue_log, so the
\* worker is never left blocked on the queue's wake primitive with a
\* non-empty queue, no wake-up pending and no queue_log call under way.
C14_WaiterNeverStealsWakeup ==
    ~(/\ wpc = "wait"
      /\ log_queue # <<>>
      /\ ~SemAvailable(log_sem)
      /\ \A p \in Producers : ppc[p] = "idle")

\* ------------------------------------------------------------------ C15

\* C15: FlushSignal is raised exactly when the re-check of line 254 saw the
\* queue empty, and before the worker blocks.  The re-check goes on to the
\* signal when and only when the queue is empty at that moment; the count of
\* flush_semaphore changes only in the step that follows such a re-check, by
\* one; and the worker reaches the wait of line 256 only from that step.
C15_FlushSignalIffEmpty ==
    [][/\ (wpc = "check" /\ wpc' # wpc)
            => /\ (wpc' = "signal") = (log_queue = <<>>)
               /\ wpc' \in {"signal", "top"}
       /\ (wpc' = "signal" /\ wpc # "signal") => (wpc = "check" /\ log_queue = <<>>)
       /\ (flush_sem' # flush_sem)
            => (wpc = "signal" /\ wpc' = "wait" /\ flush_sem' = flush_sem + 1)
       /\ (wpc' = "wait" /\ wpc # "wait")
            => (wpc = "signal" /\ flush_sem' = flush_sem + 1)]_vars

\* The worker has dispatched two entries, has then seen the queue empty at
\* its re-check, raised FlushSignal once and blocked.
C15_Witness ==
    /\ wpc = "wait"
    /\ flush_sem = 1
    /\ Len(dispatched) = 2
    /\ \E i \in 1..Len(dispatched) : dispatched[i].log.timestamp = 1
    /\ \E i \in 1..Len(dispatched) : dispatched[i].log.timestamp = 2
    /\ log_queue = <<>>

\* ------------------------------------------------------------------ C16

\* The submissions in the order of their pushes split into three consecutive
\* runs: those taken by earlier drains, the batch of the latest drain while
\* it is being worked on, and the entries waiting in the queue.
QueuePartition ==
    LET taken == Len(pushed) - Len(log_queue)
    IN  /\ taken >= Len(queue)
        /\ log_queue = SubSeq(pushed, taken + 1, Len(pushed))
        /\ queue = SubSeq(pushed, taken - Len(queue) + 1, taken)

\* C16: the drain takes exactly the entries the queue holds at that moment,
\* in insertion order, and leaves the queue empty; pushes that come before
\* the drain are in the batch and pushes that come after it are in the queue,
\* so every entry is in exactly one of the two.
C16_DrainAtomic ==
    [][/\ (wpc = "drain" /\ wpc' # wpc) => (queue' = log_queue /\ log_queue' = <<>>)
       /\ (log_queue' # log_queue)
            => \/ (wpc = "drain" /\ wpc' # wpc)
               \/ (Len(pushed') = Len(pushed) + 1
                    /\ log_queue' = Append(log_queue, pushed'[Len(pushed')]))
       /\ QueuePartition']_vars

\* A batch of two entries is being dispatched while a third, pushed after the
\* drain, waits in the queue.
C16_Witness ==
    /\ wpc = "dispatch"
    /\ Len(queue) = 2
    /\ Len(log_queue) = 1
    /\ \E p \in Producers : ppc[p] = "signal"

\* ------------------------------------------------------------------ C17

\* The worker and the producers with every acquisition and release of the
\* queue mutex as a step of its own.

\* Line 170, queue.lock(): the producer gets the mutex when it is free.
queue_log_lock(p) ==
    /\ logger = "constructed"
    /\ ppc[p] = "idle"
    /\ Len(pushed) < MaxEntries
    /\ log_mutex = "free"
    /\ log_mutex' = p
    /\ ppc' = [ppc EXCEPT ![p] = "locked"]
    /\ UNCHANGED <<log_queue, log_sem, flush_sem, pcalls, pushed>>
    /\ UNCHANGED <<lifeVars, registryVars, workerVars, waiterVars>>

\* Line 170, .push(log_data) under the guard; the guard is a temporary and is
\* dropped at the end of the statement.
queue_log_push_locked(p, message) ==
    /\ ppc[p] = "locked"
    /\ log_mutex = p
    /\ LET log_data == [level |-> DEFAULT_LEVEL, tag |-> None, message |-> message,
                        timestamp |-> Len(pushed) + 1, file |-> p,
                        line |-> pcalls[p] + 1]
       IN  /\ log_queue' = Push(log_queue, log_data)
           /\ pushed' = Append(pushed, log_data)
    /\ pcalls' = [pcalls EXCEPT ![p] = @ + 1]
    /\ ppc' = [ppc EXCEPT ![p] = "signal"]
    /\ log_mutex' = "free"
    /\ UNCHANGED <<log_sem, flush_sem, lifeVars, registryVars, workerVars, waiterVars>>

\* Line 229: log_mutex.lock().
WorkerDrainLock ==
    /\ wpc = "drain"
    /\ log_mutex = "free"
    /\ log_mutex' = "worker"
    /\ wpc' = "drain_locked"
    /\ UNCHANGED <<log_queue, log_sem, flush_sem, lifeVars, registryVars, producerVars, waiterVars>>
    /\ UNCHANGED <<max_str_len, queue, split_logs, cursor, logs_since_last_flush, dispatched>>

\* A worker that keeps the guard after the drain.
MutexHeldAfterDrain == "worker"

\* Line 233: drop(queue_locked).
MutexAfterDrain == "free"

\* Lines 232-233: drain(..) under the guard, then drop the guard.
WorkerDrainLocked ==
    /\ wpc = "drain_locked"
    /\ log_mutex = "worker"
    /\ queue' = Drained(log_queue)
    /\ log_queue' = <<>>
    /\ log_mutex' = MutexAfterDrain
    /\ wpc' = "chunk"
    /\ UNCHANGED <<log_sem, flush_sem, lifeVars, registryVars, producerVars, waiterVars>>
    /\ UNCHANGED <<max_str_len, split_logs, cursor, logs_since_last_flush, dispatched>>

\* Lines 235-237: a non-empty batch is handed to split_str_into_chunks, whose
\* chunks(0) panics at the first entry.
WorkerChunk ==
    /\ wpc = "chunk"
    /\ cursor' = 0
    /\ IF queue # <<>> /\ max_str_len = 0
       THEN /\ wpc' = "panicked"
            /\ split_logs' = <<>>
       ELSE /\ wpc' = "dispatch"
            /\ split_logs' = IF queue = <<>> THEN <<>>
                             ELSE split_str_into_chunks(queue, max_str_len)
    /\ UNCHANGED <<log_queue, log_sem, flush_sem, lifeVars, registryVars, log_mutex>>
    /\ UNCHANGED <<producerVars, waiterVars>>
    /\ UNCHANGED <<max_str_len, queue, logs_since_last_flush, dispatched>>

\* Line 254: log_mutex.lock() of the re-check.
WorkerCheckLock ==
    /\ wpc = "check"
    /\ log_mutex = "free"
    /\ log_mutex' = "worker"
    /\ wpc' = "check_locked"
    /\ UNCHANGED <<log_queue, log_sem, flush_sem, lifeVars, registryVars, producerVars, waiterVars>>
    /\ UNCHANGED <<max_str_len, queue, split_logs, cursor, logs_since_last_flush, dispatched>>

\* Line 254: is_empty() under the guard; the guard is a temporary of the `if`
\* condition and is dropped before the block of lines 255-256 is entered.
WorkerCheckLocked ==
    /\ wpc = "check_locked"
    /\ log_mutex = "worker"
    /\ wpc' = AfterCheck(log_queue = <<>>)
    /\ log_mutex' = "free"
    /\ UNCHANGED <<log_queue, log_sem, flush_sem, lifeVars, registryVars, producerVars, waiterVars>>
    /\ UNCHANGED <<max_str_len, queue, split_logs, cursor, logs_since_last_flush, dispatched>>

MutexWorkerNext ==
    \/ WorkerReadConfig
    \/ WorkerDrainLock
    \/ WorkerDrainLocked
    \/ WorkerChunk
    \/ \E file_ok \in BOOLEAN, sinks_ok \in BOOLEAN : WorkerDoLog(file_ok, sinks_ok)
    \/ \E elapsed_time \in BOOLEAN : WorkerThreshold(elapsed_time)
    \/ WorkerCheckLock
    \/ WorkerCheckLocked
    \/ WorkerFlushSignal
    \/ WorkerWait

MutexNext ==
    \/ LifeNext
    \/ \E p \in Producers : queue_log_lock(p)
    \/ \E p \in Producers, message \in FlushMessages : queue_log_push_locked(p, message)
    \/ \E p \in Producers : queue_log_signal(p)
    \/ MutexWorkerNext

MutexSpec == Init /\ [][MutexNext]_vars


\* C17: the worker holds the queue mutex only between the lock and the drop
\* of the drain and during the emptiness re-check: not while it chunks or
\* dispatches a batch, raises FlushSignal, is blocked on the wake primitive,
\* or after it has stopped.  A producer holds it only for its push.  Whoever
\* holds the mutex can take its next step, which releases it, so nobody waits
\* for the mutex forever.
C17_MutexOnlyForDrainAndCheck ==
    /\ log_mutex \in {"free", "worker"} \cup Producers
    /\ (log_mutex = "worker") = (wpc \in {"drain_locked", "check_locked"})
    /\ \A p \in Producers : (log_mutex = p) = (ppc[p] = "locked")
    /\ log_mutex = "worker" => ENABLED (WorkerDrainLocked \/ WorkerCheckLocked)
    /\ \A p \in Producers :
          log_mutex = p => ENABLED (\E message \in FlushMessages : queue_log_push_locked(p, message))
    /\ (wpc \in {"chunk", "dispatch"} /\ \A p \in Producers : ppc[p] # "locked")
          => \A p \in Producers :
                (ppc[p] = "idle" /\ Len(pushed) < MaxEntries) => ENABLED queue_log_lock(p)

\* The worker is in the middle of dispatching a batch while a producer holds
\* the mutex for a push.
C17_Witness ==
    /\ wpc = "dispatch"
    /\ cursor < Len(split_logs)
    /\ dispatched # <<>>
    /\ \E p \in Producers : log_mutex = p

\* ------------------------------------------------------------------ C18

\* The producers that have pushed their entry (line 170) and have not yet
\* signalled (line 171).
PendingSignals == {p \in Producers : ppc[p] = "signal"}

\* C18 as stated: with only producers and the worker, whenever the worker is
\* blocked on the wake primitive and the queue is non-empty, the wake count
\* is at least 1.
C18_NoLostWakeup ==
    (wpc = "wait" /\ log_queue # <<>>) => log_sem >= 1

\* C18 amended: queue_log signals once per entry, after the push, so the wake
\* count never exceeds the number of completed queue_log calls; and whenever
\* the worker is blocked on the wake primitive and the queue is non-empty,
\* the wake count is at least 1 or a producer that has pushed is about to
\* signal.  The wake-ups available and on their way cover every entry that
\* waits in the queue.
C18_WakeupAvailableOrPending ==
    /\ log_sem <= Cardinality(Completed)
    /\ (wpc = "wait" /\ log_queue # <<>>)
          => log_sem + Cardinality(PendingSignals) >= 1
    /\ wpc = "wait" => Len(log_queue) <= log_sem + Cardinality(PendingSignals)

\* A push landed between the worker's emptiness check and its wait and its
\* queue_log call has completed: the worker is at the wait with the entry in
\* the queue and the wake-up available.
C18_Witness ==
    /\ wpc = "wait"
    /\ log_queue # <<>>
    /\ log_sem >= 1
    /\ PendingSignals = {}

\* ------------------------------------------------------------------ C19

\* The message without its line breaks.
WithoutBreaks(message) == SelectSeq(message, LAMBDA c : c # LineBreak)

\* C19: every chunk is its source entry with only the message replaced
\* (level, tag, timestamp, file and line are the source's), and the chunks
\* come in the order of the text: their messages, one after the other, are
\* the source message without its line breaks.
C19_ChunksCopyOtherFields ==
    Chunked =>
        /\ \A k \in 1..Len(split_logs) :
               \E i \in 1..Len(queue) :
                   split_logs[k] = [queue[i] EXCEPT !.message = split_logs[k].message]
        /\ \A i \in 1..Len(queue) :
               Flatten(ChunkMessagesOf(i)) = WithoutBreaks(queue[i].message)

\* An entry with a tag and a level other than the defaults, whose message has
\* two lines, has been cut into three chunks or more.
C19_Witness ==
    /\ Chunked
    /\ queue[1].tag # None
    /\ queue[1].level # DEFAULT_LEVEL
    /\ Len(Split(queue[1].message)) = 2
    /\ Len(split_logs) >= 3
    /\ cursor = Len(split_logs)

\* ------------------------------------------------------------------ C20

\* C20: once the producers have stopped submitting, the worker of a started
\* logger with a valid max_string_len eventually is, and stays, blocked on
\* the wake primitive with the queue empty and the wake count 0: the wake
\* counts left over from batches of several entries are used up by finitely
\* many passes that drain nothing.
C20_Quiescence ==
    <>[]((inited /\ config_max_string_len >= 1)
            => (wpc = "wait" /\ log_queue = <<>> /\ log_sem = 0))

=============================================================================
